---- MODULE Spec2Model ----
(***************************************************************************)
(* ZelloBridgeWatchdog.py as a state machine: the polling loop of main(),  *)
(* the config mutator update_connector_tokens() and the signer             *)
(* generate_jwt_token().                                                   *)
(***************************************************************************)
EXTENDS Integers, Sequences, FiniteSets, TLC

(***************************************************************************)
(* JSON / Python values.  Every value is a record tagged by its type, so   *)
(* that values of different Python types can be told apart.  None and the  *)
(* JSON null are the same value.  A signed token is a Python str; it gets  *)
(* its own tag because its content is structured (iss, exp, signing key).  *)
(***************************************************************************)
JNull == [t |-> "null"]
JStr(s) == [t |-> "str", v |-> s]
JInt(n) == [t |-> "int", v |-> n]
JList(s) == [t |-> "list", v |-> s]
JObj(f) == [t |-> "obj", v |-> f]
Jwt(iss, exp, key) ==
    [t |-> "jwt",
     v |-> [header |-> [typ |-> "JWT", alg |-> "RS256"],
            payload |-> [iss |-> iss, exp |-> exp],
            key |-> key]]

\* dict.get(k, d): the caller has checked that o is a dict
DictGet(o, k, d) == IF k \in DOMAIN o.v THEN o.v[k] ELSE d

\* Python ==
PyEq(a, b) == a.t = b.t /\ a = b

\* a test for None where the code tests truthiness
TruthyNotNone(x) == x.t # "null"

\* Python truthiness (`not username`, `if new_token`)
Truthy(x) ==
    CASE x.t = "null" -> FALSE
      [] x.t = "str" -> x.v # ""
      [] x.t = "int" -> x.v # 0
      [] x.t = "list" -> Len(x.v) > 0
      [] x.t = "obj" -> DOMAIN x.v # {}
      [] OTHER -> TRUE

ZelloType == JStr("zello-channel-api")

(***************************************************************************)
(* Bounds and program constants                                            *)
(***************************************************************************)
MaxPolls == 3

TokenLifetime == 120
Quiescence == 60
PollInterval == 1
StatusOk == 200
AuthErrorA == 3001
AuthErrorB == 3002

(***************************************************************************)
(* What the bridge can answer to GET /status                               *)
(***************************************************************************)
ConfigPath == "/bridge/config.json"
AbsentPath == "/bridge/absent.json"

Err(code) == JObj([code |-> JInt(code)])
SConn(type, le) == JObj([type |-> JStr(type), name |-> JStr("ch"), last_error |-> le])
SConnNoError(type) == JObj([type |-> JStr(type), name |-> JStr("ch")])
SLink(conns) == JObj([connectors |-> JList(conns)])
Snapshot(cfg, links) == JObj([config_file |-> cfg, links |-> links])

Zello3001 == SConn("zello-channel-api", Err(3001))
Zello3002 == SConn("zello-channel-api", Err(3002))

HttpJson(code, val) == [kind |-> "http", status_code |-> code, json |-> TRUE, val |-> val]
HttpText(code) == [kind |-> "http", status_code |-> code, json |-> FALSE, val |-> JNull]
NetworkError == [kind |-> "error", status_code |-> 0, json |-> FALSE, val |-> JNull]
NoResponse == [kind |-> "none", status_code |-> 0, json |-> FALSE, val |-> JNull]

Failing == Snapshot(JStr(ConfigPath), JList(<<SLink(<<Zello3001>>)>>))

Responses ==
    << NetworkError,
       HttpText(500),
       HttpJson(500, Failing),
       HttpJson(201, Failing),
       HttpJson(200, JList(<<>>)),
       HttpText(200),
       HttpJson(200, Failing),
       HttpJson(200, Snapshot(JStr(ConfigPath),
            JList(<<SLink(<<SConnNoError("zello-channel-api")>>),
                    SLink(<<Zello3002, Zello3001>>)>>))),
       HttpJson(200, Snapshot(JStr(ConfigPath),
            JList(<<SLink(<<SConnNoError("zello-channel-api"),
                            SConn("zello-channel-api", Err(4004))>>)>>))),
       HttpJson(200, Snapshot(JStr(ConfigPath),
            JList(<<SLink(<<SConn("tcp", Err(3001))>>)>>))),
       HttpJson(200, Snapshot(JStr(ConfigPath),
            JList(<<SLink(<<SConn("zello-channel-api", JNull)>>)>>))),
       HttpJson(200, Snapshot(JStr(ConfigPath),
            JList(<<SLink(<<Zello3001, SConn("zello-channel-api", JStr("down"))>>)>>))),
       HttpJson(200, Snapshot(JStr(ConfigPath), JNull)),
       HttpJson(200, JObj([config_file |-> JStr(ConfigPath)])),
       HttpJson(200, Snapshot(JStr(AbsentPath), JList(<<SLink(<<Zello3002>>)>>))),
       HttpJson(200, JObj([links |-> JList(<<SLink(<<Zello3001>>)>>)])),
       HttpJson(200, Snapshot(JNull, JList(<<SLink(<<Zello3001>>)>>))) >>

(***************************************************************************)
(* main(): the scan of the status snapshot, lines 171-190                  *)
(***************************************************************************)
Raised == [raised |-> TRUE, found |-> FALSE]

\* `for x in v`: a list yields its elements; a str yields its characters and
\* a dict its keys, all of them strs (only their type matters to the scan);
\* None and numbers are not iterable (TypeError).
IterItems(x) ==
    CASE x.t = "list" -> [raised |-> FALSE, items |-> x.v]
      [] x.t = "str" -> [raised |-> FALSE,
                         items |-> IF x.v = "" THEN <<>> ELSE <<JStr("c")>>]
      [] x.t = "obj" -> [raised |-> FALSE,
                         items |-> IF DOMAIN x.v = {} THEN <<>> ELSE <<JStr("k")>>]
      [] OTHER -> [raised |-> TRUE, items |-> <<>>]

\* a watchdog that reacts to every error code
IsAuthErrorAnyCode(error_code) == error_code.t = "int"

\* error_code in (3001, 3002)
IsAuthError(error_code) ==
    error_code.t = "int" /\ error_code.v \in {AuthErrorA, AuthErrorB}

RECURSIVE ScanConnectors(_, _)
ScanConnectors(cs, found_error) ==
    IF Len(cs) = 0 THEN [raised |-> FALSE, found |-> found_error]
    ELSE LET connector == Head(cs) IN
         IF connector.t # "obj" THEN Raised
         ELSE IF PyEq(DictGet(connector, "type", JNull), ZelloType)
         THEN LET last_error == DictGet(connector, "last_error", JObj(<<>>)) IN
              IF last_error.t # "obj" THEN Raised
              ELSE ScanConnectors(Tail(cs),
                       found_error \/ IsAuthError(DictGet(last_error, "code", JNull)))
         ELSE ScanConnectors(Tail(cs), found_error)

RECURSIVE ScanLinks(_, _)
ScanLinks(ls, found_error) ==
    IF Len(ls) = 0 THEN [raised |-> FALSE, found |-> found_error]
    ELSE LET link == Head(ls) IN
         IF link.t # "obj" THEN Raised
         ELSE LET it == IterItems(DictGet(link, "connectors", JList(<<>>))) IN
              IF it.raised THEN Raised
              ELSE LET r == ScanConnectors(it.items, found_error) IN
                   IF r.raised THEN Raised ELSE ScanLinks(Tail(ls), r.found)

ScanStatus(data) ==
    IF data.t # "obj" THEN Raised
    ELSE LET it == IterItems(DictGet(data, "links", JList(<<>>))) IN
         IF it.raised THEN Raised ELSE ScanLinks(it.items, FALSE)

(***************************************************************************)
(* State                                                                   *)
(***************************************************************************)
VARIABLES
    pc,          \* where main() is: poll, mutate, restart, sleep60, sleep1, crashed
    now,         \* time.time(), in seconds
    polls,       \* status requests issued so far
    response,    \* the answer to this iteration's GET /status
    config_path, \* data.get("config_file") of this iteration's snapshot
    disk,        \* content of the file at ConfigPath
    material,    \* per username: the {username}.pem and {username}.txt files
    pass,        \* what this iteration's update_connector_tokens() did
    events,      \* the requests and sleeps of this iteration, in order
    hist         \* the run so far: tokens minted, calls and requests counted and timed

vars == <<pc, now, polls, response, config_path, disk, material, pass, events, hist>>

(***************************************************************************)
(* Files                                                                   *)
(***************************************************************************)
File(k, fmt, val) == [k |-> k, fmt |-> fmt, val |-> val]
Missing == File("missing", "", JNull)
Binary == File("binary", "", JNull)        \* bytes that are not UTF-8
Text == File("text", "", JNull)            \* text that is not JSON
NoAccess == File("noaccess", "", JNull)    \* open() raises PermissionError
Partial == File("partial", "", JNull)      \* truncated by open(.., 'w'), dump incomplete
JsonFile(val) == File("json", "raw", val)

FileAt(path) == IF path = ConfigPath THEN disk ELSE Missing

\* os.path.dirname: both paths a snapshot can name lie in one directory
BaseDir == "/bridge"
Dirname(path) == BaseDir

Users == {"alice", "bob"}
Whitespace == {" ", "\n", "\t"}

RECURSIVE LStrip(_)
LStrip(s) == IF Len(s) > 0 /\ Head(s) \in Whitespace THEN LStrip(Tail(s)) ELSE s

RECURSIVE RStrip(_)
RStrip(s) ==
    IF Len(s) > 0 /\ s[Len(s)] \in Whitespace THEN RStrip(SubSeq(s, 1, Len(s) - 1)) ELSE s

\* a strip that leaves the trailing whitespace in place
StripLeftOnly(s) == LStrip(s)

\* str.strip()
Strip(s) == RStrip(LStrip(s))

\* os.path.join(base_dir, f"{username}.pem"): a path is its directory, stem and suffix
JoinPath(base_dir, username, suffix) == [dir |-> base_dir, stem |-> username, suffix |-> suffix]

Stored(path) == path.dir = BaseDir /\ path.stem.t = "str" /\ path.stem.v \in Users

KeyAt(path) == IF Stored(path) THEN material[path.stem.v].key ELSE "missing"
IssuerAt(path) ==
    IF Stored(path) THEN material[path.stem.v].issuer ELSE [exists |-> FALSE, text |-> <<>>]

\* a signer whose expiry does not follow the clock
generate_jwt_token_fixed_expiry(issuer_path, private_key_path) ==
    IF KeyAt(private_key_path) = "rsa" /\ IssuerAt(issuer_path).exists
    THEN Jwt(Strip(IssuerAt(issuer_path).text), TokenLifetime, private_key_path.stem.v)
    ELSE JNull

\* a signer that returns the error text where it should return None
generate_jwt_token_error_text(issuer_path, private_key_path) ==
    IF KeyAt(private_key_path) = "rsa" /\ IssuerAt(issuer_path).exists
    THEN Jwt(Strip(IssuerAt(issuer_path).text), now + TokenLifetime, private_key_path.stem.v)
    ELSE JStr("error")

(***************************************************************************)
(* generate_jwt_token(), lines 27-81.  None is JNull.                      *)
(***************************************************************************)
generate_jwt_token(issuer_path, private_key_path) ==
    IF KeyAt(private_key_path) = "missing" THEN JNull
    ELSE IF ~IssuerAt(issuer_path).exists THEN JNull
    ELSE IF KeyAt(private_key_path) = "garbage" THEN JNull   \* load_pem_private_key raises
    ELSE LET issuer_content == Strip(IssuerAt(issuer_path).text) IN
         IF KeyAt(private_key_path) # "rsa" THEN JNull       \* jwt.encode raises
         ELSE Jwt(issuer_content, now + TokenLifetime, private_key_path.stem.v)

\* What one call of generate_jwt_token() does, step by step: the existence
\* checks, the parse of the key, the read of the issuer, the signature, and
\* the error it logs.
Step(op, path) == [op |-> op, path |-> path]
NoPath == [dir |-> "", stem |-> JNull, suffix |-> ""]

\* a signer that loads the key before it looks for the issuer file
SignerStepsParseFirst(issuer_path, private_key_path) ==
    <<Step("exists", private_key_path)>> \o
    IF KeyAt(private_key_path) = "missing"
    THEN <<Step("log_missing", private_key_path)>>
    ELSE <<Step("parse_key", private_key_path), Step("exists", issuer_path)>> \o
         IF ~IssuerAt(issuer_path).exists
         THEN <<Step("log_missing", issuer_path)>>
         ELSE <<Step("read_issuer", issuer_path), Step("sign", private_key_path)>>

SignerSteps(issuer_path, private_key_path) ==
    <<Step("exists", private_key_path)>> \o
    IF KeyAt(private_key_path) = "missing"
    THEN <<Step("log_missing", private_key_path)>>
    ELSE <<Step("exists", issuer_path)>> \o
         IF ~IssuerAt(issuer_path).exists
         THEN <<Step("log_missing", issuer_path)>>
         ELSE <<Step("parse_key", private_key_path)>> \o
              IF KeyAt(private_key_path) = "garbage"
              THEN <<Step("log_error", NoPath)>>
              ELSE <<Step("read_issuer", issuer_path), Step("sign", private_key_path)>> \o
                   IF KeyAt(private_key_path) # "rsa"
                   THEN <<Step("log_error", NoPath)>>
                   ELSE <<>>

(***************************************************************************)
(* update_connector_tokens(), lines 83-154                                 *)
(***************************************************************************)
\* a mutator that rebuilds the connector around its token
SetTokenOnly(connector, new_token) == JObj([token |-> new_token])

\* connector['token'] = new_token
SetToken(connector, new_token) ==
    JObj(IF "token" \in DOMAIN connector.v
         THEN [connector.v EXCEPT !["token"] = new_token]
         ELSE ("token" :> new_token) @@ connector.v)

\* lines 114-139: the connectors of one link.  acc holds the connectors done
\* so far, changes_made and the usernames the signer was called for.
RECURSIVE UpdateConnectors(_, _, _)
UpdateConnectors(cs, base_dir, acc) ==
    IF Len(cs) = 0 THEN acc
    ELSE LET connector == Head(cs) IN
         IF connector.t # "obj" THEN [acc EXCEPT !.raised = TRUE]
         ELSE IF ~PyEq(DictGet(connector, "type", JNull), ZelloType)
         THEN UpdateConnectors(Tail(cs), base_dir,
                  [acc EXCEPT !.items = Append(@, connector)])
         ELSE LET username == DictGet(connector, "username", JNull) IN
              IF ~Truthy(username)
              THEN UpdateConnectors(Tail(cs), base_dir,
                       [acc EXCEPT !.items = Append(@, connector)])
              ELSE LET private_key_path == JoinPath(base_dir, username, ".pem")
                       issuer_path == JoinPath(base_dir, username, ".txt")
                       new_token == generate_jwt_token(issuer_path, private_key_path)
                   IN  IF Truthy(new_token)
                       THEN UpdateConnectors(Tail(cs), base_dir,
                                [acc EXCEPT !.items = Append(@, SetToken(connector, new_token)),
                                            !.changes_made = TRUE,
                                            !.calls = Append(@, username)])
                       ELSE UpdateConnectors(Tail(cs), base_dir,
                                [acc EXCEPT !.items = Append(@, connector),
                                            !.calls = Append(@, username)])

\* 'connectors' in link: a key of a dict, an element of a list; None and
\* numbers raise TypeError.  (A str link would be searched for the substring;
\* no modelled document holds one.)
HasConnectors(link) ==
    CASE link.t = "obj" -> [raised |-> FALSE, has |-> "connectors" \in DOMAIN link.v]
      [] link.t = "list" -> [raised |-> \E i \in 1..Len(link.v) : PyEq(link.v[i], JStr("connectors")),
                             has |-> FALSE]
      [] OTHER -> [raised |-> TRUE, has |-> FALSE]

\* a pass that stops refreshing after the first link and copies the others
UpdateLinksFirstOnly(ls, base_dir, acc) ==
    IF Len(ls) = 0 THEN acc
    ELSE LET link == Head(ls)
             hc == HasConnectors(link)
         IN  IF hc.raised THEN [acc EXCEPT !.raised = TRUE]
             ELSE IF ~(hc.has /\ link.v["connectors"].t = "list")
             THEN [acc EXCEPT !.items = <<link>> \o Tail(ls)]
             ELSE LET r == UpdateConnectors(link.v["connectors"].v, base_dir,
                               [acc EXCEPT !.items = <<>>])
                  IN  IF r.raised THEN r
                      ELSE [r EXCEPT !.items =
                               <<JObj([link.v EXCEPT !["connectors"] = JList(r.items)])>>
                               \o Tail(ls)]

\* lines 112-139: every link.  acc.items collects the links done so far.
RECURSIVE UpdateLinks(_, _, _)
UpdateLinks(ls, base_dir, acc) ==
    IF Len(ls) = 0 THEN acc
    ELSE LET link == Head(ls)
             hc == HasConnectors(link)
         IN  IF hc.raised THEN [acc EXCEPT !.raised = TRUE]
             ELSE IF ~(hc.has /\ link.v["connectors"].t = "list")
             THEN UpdateLinks(Tail(ls), base_dir, [acc EXCEPT !.items = Append(@, link)])
             ELSE LET r == UpdateConnectors(link.v["connectors"].v, base_dir,
                               [acc EXCEPT !.items = <<>>])
                  IN  IF r.raised THEN r
                      ELSE UpdateLinks(Tail(ls), base_dir,
                               [r EXCEPT !.items = Append(acc.items,
                                    JObj([link.v EXCEPT !["connectors"] = JList(r.items)]))])

\* What one call does up to the write-back: how it ended before line 144
\* ("raised", "returned" after an error was logged, or "pass" when the loop
\* over the links ran to its end), the document in memory, changes_made and
\* the signer calls.
NoPass == [end |-> "none", path |-> JNull, before |-> Missing, data |-> JNull,
           changes_made |-> FALSE, calls |-> <<>>, write |-> "none"]

EndPass(end, file_path, before) ==
    [NoPass EXCEPT !.end = end, !.path = file_path, !.before = before]

update_connector_tokens(file_path) ==
    IF file_path.t # "str" THEN EndPass("raised", file_path, Missing)   \* os.path.exists(None): TypeError
    ELSE LET f == FileAt(file_path.v) IN
         IF f.k = "missing" THEN EndPass("returned", file_path, f)
         ELSE IF f.k = "binary" THEN EndPass("raised", file_path, f)    \* UnicodeDecodeError, not caught
         ELSE IF f.k # "json" THEN EndPass("returned", file_path, f)    \* JSONDecodeError, IOError
         ELSE LET data == f.val IN
              IF ~(data.t = "obj" /\ "links" \in DOMAIN data.v /\ data.v["links"].t = "list")
              THEN EndPass("returned", file_path, f)
              ELSE LET r == UpdateLinks(data.v["links"].v, Dirname(file_path.v),
                                [raised |-> FALSE, items |-> <<>>,
                                 changes_made |-> FALSE, calls |-> <<>>])
                   IN  [end |-> IF r.raised THEN "raised" ELSE "pass",
                        path |-> file_path,
                        before |-> f,
                        data |-> JObj([data.v EXCEPT !["links"] = JList(r.items)]),
                        changes_made |-> r.changes_made,
                        calls |-> r.calls,
                        write |-> "none"]

\* json.dump(data, f, indent=4)
json_dump(data) == File("json", "indent4", data)

\* lines 145-152: open(file_path, 'w') may fail and leave the file alone; once
\* it has truncated the file, a failing dump leaves it empty or cut short.
WriteOutcomes == {"ok", "open_failed", "dump_failed"}

Written(before, data, outcome) ==
    CASE outcome = "ok" -> json_dump(data)
      [] outcome = "dump_failed" -> Partial
      [] OTHER -> before

\* a mutator that saves after every pass
ShouldWriteAlways(r) == r.end = "pass"

\* line 145: if changes_made
ShouldWrite(r) == r.end = "pass" /\ r.changes_made

(***************************************************************************)
(* The files the watchdog can find                                         *)
(***************************************************************************)
OldToken(u) == Jwt(<<"issuer-old">>, 60, u)

CConn(type, username, token) ==
    JObj([type |-> JStr(type), username |-> username, name |-> JStr("ch"),
          token |-> token, volume |-> JInt(7)])
CConnNoUser(type, token) == JObj([type |-> JStr(type), token |-> token])
CConnNoToken(type, username) == JObj([type |-> JStr(type), username |-> username])
CLink(label, conns) == JObj([label |-> JStr(label), connectors |-> JList(conns)])
Doc(links) == JsonFile(JObj([version |-> JInt(2), links |-> JList(links)]))

Alice == JStr("alice")
Bob == JStr("bob")

ConfigFiles ==
    << Binary,
       Text,
       NoAccess,
       JsonFile(JList(<<>>)),
       JsonFile(JObj([version |-> JInt(2)])),
       JsonFile(JObj([links |-> JNull])),
       Doc(<<>>),
       Doc(<<CLink("a", <<CConn("zello-channel-api", Alice, OldToken("alice")),
                          CConn("tcp", Alice, JStr("tcp-secret"))>>)>>),
       Doc(<<CLink("a", <<CConnNoUser("zello-channel-api", OldToken("x")),
                          CConn("zello-channel-api", Alice, OldToken("alice"))>>),
             CLink("b", <<CConn("zello-channel-api", Bob, JStr("manual")),
                          CConn("zello-channel-api", Alice, OldToken("alice")),
                          CConnNoToken("udp", Bob)>>)>>),
       Doc(<<JObj([label |-> JStr("a")]),
             JObj([connectors |-> JNull]),
             CLink("c", <<CConn("zello-channel-api", JStr(""), OldToken("x"))>>)>>),
       Doc(<<CLink("a", <<CConn("zello-channel-api", Alice, OldToken("alice"))>>),
             JInt(7)>>),
       Doc(<<CLink("a", <<CConnNoToken("zello-channel-api", Bob), JInt(7)>>)>>) >>

IssuerText(u) == IF u = "alice" THEN <<" ", "issuer-a", "\n">> ELSE <<"issuer-b", "\n", "\n">>

Materials ==
    << [key |-> "rsa", exists |-> TRUE],
       [key |-> "missing", exists |-> TRUE],
       [key |-> "rsa", exists |-> FALSE],
       [key |-> "garbage", exists |-> TRUE],    \* not PEM
       [key |-> "ec", exists |-> TRUE] >>        \* parses, cannot sign RS256

MaterialOf(u, m) ==
    [key |-> m.key,
     issuer |-> [exists |-> m.exists, text |-> IF m.exists THEN IssuerText(u) ELSE <<>>]]

(***************************************************************************)
(* main(), lines 157-219                                                   *)
(***************************************************************************)
Init ==
    /\ pc = "poll"
    /\ now = 0
    /\ polls = 0
    /\ response = NoResponse
    /\ config_path = JNull
    /\ \E i \in 1..Len(ConfigFiles) : disk = ConfigFiles[i]
    /\ \E a, b \in 1..Len(Materials) :
           material = [u \in Users |->
                          MaterialOf(u, Materials[IF u = "alice" THEN a ELSE b])]
    /\ pass = NoPass
    /\ events = <<>>
    /\ hist = [minted |-> <<>>, triggers |-> 0, mutations |-> 0, restarts |-> 0,
               status_at |-> 0, restart_at |-> 0]

\* a watchdog that accepts every 2xx status code
IsSuccess2xx(resp) == resp.status_code \in 200..299

\* line 169: if response.status_code == 200
IsSuccess(resp) == resp.status_code = StatusOk

\* lines 166-216: where the iteration goes after the response.  A body that
\* is not JSON makes response.json() raise; whether that exception is a
\* requests.exceptions.RequestException (caught at line 213) or a plain
\* ValueError (not caught) depends on the installed requests.
AfterResponse(resp, json_error_caught) ==
    IF resp.kind = "error" THEN "sleep1"
    ELSE IF ~IsSuccess(resp) THEN "sleep1"
    ELSE IF ~resp.json THEN (IF json_error_caught THEN "sleep1" ELSE "crashed")
    ELSE LET r == ScanStatus(resp.val) IN
         IF r.raised THEN "crashed" ELSE IF r.found THEN "mutate" ELSE "sleep1"

\* a watchdog that ignores the snapshot's config_file
ConfigFileOfFixed(resp) == JStr(ConfigPath)

\* line 173
ConfigFileOf(resp) ==
    IF resp.kind = "http" /\ IsSuccess(resp) /\ resp.json /\ resp.val.t = "obj"
    THEN DictGet(resp.val, "config_file", JNull) ELSE JNull

GetStatus ==
    /\ pc = "poll"
    /\ polls < MaxPolls
    /\ \E i \in 1..Len(Responses), json_error_caught \in BOOLEAN :
           /\ response' = Responses[i]
           /\ pc' = AfterResponse(Responses[i], json_error_caught)
           /\ config_path' = ConfigFileOf(Responses[i])
    /\ hist' = [hist EXCEPT !.status_at = now,
                            !.triggers = IF pc' = "mutate" THEN @ + 1 ELSE @]
    /\ polls' = polls + 1
    /\ pass' = NoPass
    /\ events' = <<"status">>
    /\ UNCHANGED <<now, disk, material>>

\* the tokens generate_jwt_token returned during a pass, each with the number
\* of the iteration that minted it
IsToken(x) == Truthy(x)
MintedIn(r) ==
    LET made == [i \in 1..Len(r.calls) |->
                    generate_jwt_token(JoinPath(BaseDir, r.calls[i], ".txt"),
                                       JoinPath(BaseDir, r.calls[i], ".pem"))]
        kept == SelectSeq(made, IsToken)
    IN  [i \in 1..Len(kept) |-> [cycle |-> polls, at |-> now, token |-> kept[i]]]

\* a watchdog that restarts the bridge only after it saved new tokens
MutateRestartOnlyOnChange ==
    /\ pc = "mutate"
    /\ LET r == update_connector_tokens(config_path) IN
       \E w \in (IF ShouldWrite(r) THEN WriteOutcomes ELSE {"none"}) :
           /\ pass' = [r EXCEPT !.write = w]
           /\ disk' = IF w = "none" THEN disk ELSE Written(disk, r.data, w)
           /\ pc' = IF r.end = "raised" THEN "crashed"
                    ELSE IF w = "ok" THEN "restart" ELSE "sleep1"
           /\ hist' = [hist EXCEPT !.mutations = @ + 1, !.minted = @ \o MintedIn(r)]
    /\ events' = Append(events, "mutate")
    /\ UNCHANGED <<now, polls, response, config_path, material>>

\* line 194
Mutate ==
    /\ pc = "mutate"
    /\ LET r == update_connector_tokens(config_path) IN
       \E w \in (IF ShouldWrite(r) THEN WriteOutcomes ELSE {"none"}) :
           /\ pass' = [r EXCEPT !.write = w]
           /\ disk' = IF w = "none" THEN disk ELSE Written(disk, r.data, w)
           /\ pc' = IF r.end = "raised" THEN "crashed" ELSE "restart"
           /\ hist' = [hist EXCEPT !.mutations = @ + 1, !.minted = @ \o MintedIn(r)]
    /\ events' = Append(events, "mutate")
    /\ UNCHANGED <<now, polls, response, config_path, material>>

\* a watchdog that skips the quiescence sleep when the PUT fails
AfterRestartGivesUp(sent) == IF sent THEN "sleep60" ELSE "sleep1"

\* lines 196-202: the PUT is answered (any status code) or raises a
\* RequestException, which is logged
AfterRestart(sent) == "sleep60"

Restart ==
    /\ pc = "restart"
    /\ \E sent \in BOOLEAN :
           /\ events' = Append(events, IF sent THEN "restart" ELSE "restart_failed")
           /\ pc' = AfterRestart(sent)
    /\ hist' = [hist EXCEPT !.restarts = @ + 1, !.restart_at = now]
    /\ UNCHANGED <<now, polls, response, config_path, disk, material, pass>>

\* a watchdog that does not wait after the restart request
Sleep60Skipped ==
    /\ pc = "sleep60"
    /\ now' = now
    /\ events' = Append(events, "sleep60")
    /\ pc' = "sleep1"
    /\ UNCHANGED <<polls, response, config_path, disk, material, pass, hist>>

\* line 206
Sleep60 ==
    /\ pc = "sleep60"
    /\ now' = now + Quiescence
    /\ events' = Append(events, "sleep60")
    /\ pc' = "sleep1"
    /\ UNCHANGED <<polls, response, config_path, disk, material, pass, hist>>

\* line 219
Sleep1 ==
    /\ pc = "sleep1"
    /\ now' = now + PollInterval
    /\ events' = Append(events, "sleep1")
    /\ pc' = "poll"
    /\ UNCHANGED <<polls, response, config_path, disk, material, pass, hist>>

Next == GetStatus \/ Mutate \/ Restart \/ Sleep60 \/ Sleep1

Spec == Init /\ [][Next]_vars

(***************************************************************************)
(* Properties                                                              *)
(***************************************************************************)
Connectors(link) ==
    IF link.t = "obj" /\ "connectors" \in DOMAIN link.v /\ link.v["connectors"].t = "list"
    THEN link.v["connectors"].v ELSE <<>>

Links(val) ==
    IF val.t = "obj" /\ "links" \in DOMAIN val.v /\ val.v["links"].t = "list"
    THEN val.v["links"].v ELSE <<>>

IsZello(c) == c.t = "obj" /\ "type" \in DOMAIN c.v /\ c.v["type"] = ZelloType

\* the failure signature: a zello-channel-api connector whose last_error.code
\* is 3001 or 3002
Signature(c) ==
    /\ IsZello(c)
    /\ "last_error" \in DOMAIN c.v
    /\ c.v["last_error"].t = "obj"
    /\ "code" \in DOMAIN c.v["last_error"].v
    /\ c.v["last_error"].v["code"] \in {JInt(3001), JInt(3002)}

HasSignature(val) ==
    \E i \in 1..Len(Links(val)) :
        \E j \in 1..Len(Connectors(Links(val)[i])) : Signature(Connectors(Links(val)[i])[j])

\* a body of the documented snapshot shape, as far as the scan reads it
Scannable(val) ==
    /\ val.t = "obj"
    /\ "links" \in DOMAIN val.v => val.v["links"].t = "list"
    /\ \A i \in 1..Len(Links(val)) :
          LET link == Links(val)[i] IN
          /\ link.t = "obj"
          /\ "connectors" \in DOMAIN link.v => link.v["connectors"].t = "list"
          /\ \A j \in 1..Len(Connectors(link)) :
                LET c == Connectors(link)[j] IN
                /\ c.t = "obj"
                /\ (IsZello(c) /\ "last_error" \in DOMAIN c.v) => c.v["last_error"].t = "obj"

Happened(e) == \E i \in 1..Len(events) : events[i] = e
RestartIssued == Happened("restart") \/ Happened("restart_failed")
Remediating == pc \in {"mutate", "restart", "sleep60"} \/ Happened("mutate") \/ RestartIssued

\* C1: a token refresh or a restart request happens in an iteration only if
\* that iteration's status request was answered with status 200 and a snapshot
\* holding a zello-channel-api connector with last_error.code 3001 or 3002.
C1_RemediationOnlyOnSignature ==
    Remediating =>
        /\ response.kind = "http"
        /\ response.status_code = 200
        /\ response.json
        /\ HasSignature(response.val)

C1_Witness == Happened("mutate") /\ Happened("restart") /\ pass.write = "ok"

\* C2 as stated: every 2xx response whose snapshot holds the failure signature
\* makes the loop remediate in that iteration.
C2_Every2xxRemediates ==
    (/\ response.kind = "http"
     /\ response.status_code \in 200..299
     /\ response.json
     /\ Scannable(response.val)
     /\ HasSignature(response.val)) => Remediating

\* C2 amended: a response with status code exactly 200 whose snapshot holds the
\* failure signature makes the loop remediate in that iteration; a response
\* with any other status code, 201..299 included, never does, and the
\* iteration goes on to the 1 second sleep.
C2_Only200Remediates ==
    /\ (/\ response.kind = "http"
        /\ response.status_code = 200
        /\ response.json
        /\ Scannable(response.val)
        /\ HasSignature(response.val)) => Remediating
    /\ (response.kind = "http" /\ response.status_code # 200) =>
           /\ ~Remediating
           /\ pc \in {"sleep1", "poll"}

C2_Witness ==
    /\ pc = "mutate"
    /\ response.status_code = 200
    /\ HasSignature(response.val)
    /\ events = <<"status">>

\* the events of an iteration, a failed restart request counted as a request
Kind(e) == IF e = "restart_failed" THEN "restart" ELSE e
Kinds == [i \in 1..Len(events) |-> Kind(events[i])]
IsPrefix(s, t) == Len(s) <= Len(t) /\ s = SubSeq(t, 1, Len(s))

Cycle == <<"status", "mutate", "restart", "sleep60", "sleep1">>
Quiet == <<"status", "sleep1">>

\* where main() is after each step of a cycle
AtStep ==
    /\ pc = "mutate" => events = <<"status">>
    /\ pc = "restart" => Kinds = SubSeq(Cycle, 1, 2)
    /\ pc = "sleep60" => Kinds = SubSeq(Cycle, 1, 3)
    /\ pc = "sleep1" => Kinds = SubSeq(Cycle, 1, 4) \/ events = <<"status">>
    /\ pc = "poll" => Kinds = Cycle \/ events = Quiet \/ events = <<>>

\* C3: in a remediation cycle the mutator runs on the config_file of the
\* triggering snapshot, then the restart request is issued, then the 60 second
\* sleep runs, and only then can the next status request be issued: a status
\* request is issued only after the previous iteration's steps are complete.
C3_CycleOrder ==
    /\ [](IsPrefix(Kinds, Cycle) \/ IsPrefix(Kinds, Quiet))
    /\ [](AtStep)
    /\ [](Happened("mutate") =>
             /\ response.val.t = "obj"
             /\ pass.path = DictGet(response.val, "config_file", JNull))
    /\ [][polls' # polls => (Kinds = Cycle \/ events = Quiet \/ events = <<>>)]_vars
    /\ [][now' = now + Quiescence => (pc = "sleep60" /\ polls' = polls)]_vars

C3_Witness ==
    /\ pc = "poll"
    /\ Kinds = Cycle
    /\ pass.path = JStr(AbsentPath)

\* a status body that is not a snapshot: not JSON, not of the shape the scan
\* reads, or without a config_file path while it reports the signature
MalformedBody ==
    /\ response.kind = "http"
    /\ response.status_code = 200
    /\ \/ ~response.json
       \/ ~Scannable(response.val)
       \/ HasSignature(response.val) /\ DictGet(response.val, "config_file", JNull).t # "str"

\* C4: no missing resource, malformed config or key, network failure or
\* partial success ends the loop: whatever the files hold and whatever the
\* requests do, main() does not terminate as long as status bodies are snapshots.
C4_NoErrorIsFatal == ~MalformedBody => pc # "crashed"

\* C5: a malformed status body is treated as transient: the loop does not
\* crash on it and goes on to the next status request.
C5_MalformedBodyIsTransient == MalformedBody => pc \in {"sleep1", "poll"}

\* C6: a failed PUT /restart is swallowed: it stays the only restart request
\* of the cycle, the 60 second sleep follows, then the 1 second sleep and the
\* next poll, as after a successful request.
C6_RestartFailureSwallowed ==
    Happened("restart_failed") =>
        /\ Cardinality({i \in 1..Len(events) : Kind(events[i]) = "restart"}) = 1
        /\ IsPrefix(Kinds, Cycle)
        /\ \/ pc = "sleep60" /\ Len(events) = 3
           \/ pc = "sleep1" /\ Len(events) = 4
           \/ pc = "poll" /\ Len(events) = 5

C6_Witness ==
    /\ pc = "poll"
    /\ events = <<"status", "mutate", "restart_failed", "sleep60", "sleep1">>

TokenOf(c) == IF c.t = "obj" /\ "token" \in DOMAIN c.v THEN c.v["token"] ELSE [t |-> "absent"]

\* some connector's token in the document new differs from its token in old
TokenChanged(old, new) ==
    \E i \in 1..Len(Links(old)) :
        \E j \in 1..Len(Connectors(Links(old)[i])) :
            TokenOf(Connectors(Links(new)[i])[j]) # TokenOf(Connectors(Links(old)[i])[j])

Invoked == pass.end # "none"

\* C7: a call of the mutator that returns writes the document back if and
\* only if at least one connector's token changed during the call; without a
\* changed token the file is not written.
C7_WriteIffTokenChanged ==
    (Invoked /\ pass.end # "raised") =>
        /\ pass.write # "none" <=> (pass.end = "pass" /\ TokenChanged(pass.before.val, pass.data))
        /\ pass.write = "none" => FileAt(pass.path.v) = pass.before
        /\ pass.write = "ok" => (disk.k = "json" /\ disk.val = pass.data)

C7_Witness ==
    /\ pass.write = "ok"
    /\ TokenChanged(pass.before.val, disk.val)
    /\ pc = "restart"

HasLinksList(val) == val.t = "obj" /\ "links" \in DOMAIN val.v /\ val.v["links"].t = "list"

NoLinks(f) ==
    \/ f.k \in {"missing", "binary", "text", "partial"}
    \/ f.k = "json" /\ ~HasLinksList(f.val)

\* C8: on a config file that does not exist, is not valid structured data or
\* has no top-level links list, the mutator returns without raising, never
\* calls the signer and leaves the file as it was.
C8_BadConfigLeftAlone ==
    (Invoked /\ pass.path.t = "str" /\ NoLinks(pass.before)) =>
        /\ pass.end = "returned"
        /\ pc # "crashed"
        /\ pass.calls = <<>>
        /\ pass.write = "none"
        /\ FileAt(pass.path.v) = pass.before

\* C9: when the write-back fails the mutator returns and the file holds what
\* it held before the call.
C9_FailedWriteKeepsFile ==
    pass.write \in {"open_failed", "dump_failed"} =>
        /\ pc # "crashed"
        /\ disk = pass.before

SameExcept(a, b, key) ==
    /\ a.t = "obj" /\ b.t = "obj"
    /\ DOMAIN a.v \ {key} = DOMAIN b.v \ {key}
    /\ \A k \in DOMAIN a.v \ {key} : a.v[k] = b.v[k]

CanSign(username) ==
    /\ username.t = "str"
    /\ username.v \in Users
    /\ material[username.v].key = "rsa"
    /\ material[username.v].issuer.exists

Refreshable(c) ==
    IsZello(c) /\ "username" \in DOMAIN c.v /\ Truthy(c.v["username"]) /\ CanSign(c.v["username"])

ConnectorFrame(old, new) ==
    IF Refreshable(old) THEN SameExcept(old, new, "token") ELSE new = old

HasConnectorList(link) ==
    link.t = "obj" /\ "connectors" \in DOMAIN link.v /\ link.v["connectors"].t = "list"

LinkFrame(old, new) ==
    IF ~HasConnectorList(old) THEN new = old
    ELSE /\ SameExcept(old, new, "connectors")
         /\ HasConnectorList(new)
         /\ Len(Connectors(new)) = Len(Connectors(old))
         /\ \A j \in 1..Len(Connectors(old)) :
                ConnectorFrame(Connectors(old)[j], Connectors(new)[j])

DocFrame(old, new) ==
    /\ SameExcept(old, new, "links")
    /\ HasLinksList(new)
    /\ Len(Links(new)) = Len(Links(old))
    /\ \A i \in 1..Len(Links(old)) : LinkFrame(Links(old)[i], Links(new)[i])

\* C10: the document the mutator writes differs from the document it read
\* only in the token of zello-channel-api connectors that have a usable
\* username and whose signing succeeded; every other connector, field and key
\* and the order of links and connectors are the same.
C10_OnlyTokensChange ==
    pass.write = "ok" => (disk.k = "json" /\ DocFrame(pass.before.val, disk.val))

C10_Witness ==
    /\ pass.write = "ok"
    /\ Len(Links(pass.before.val)) = 2
    /\ disk.val # pass.before.val
    /\ \E u \in Users : ~CanSign(JStr(u))

\* the connectors of a document, link by link, as (link, connector) positions
Positions(val) ==
    UNION {{<<i, j>> : j \in 1..Len(Connectors(Links(val)[i]))} : i \in 1..Len(Links(val))}

At(val, p) == Connectors(Links(val)[p[1]])[p[2]]

\* a candidate: a zello-channel-api connector with a username that is not empty
HasUsername(c) ==
    /\ IsZello(c)
    /\ "username" \in DOMAIN c.v
    /\ c.v["username"].t # "null"
    /\ c.v["username"] # JStr("")

\* a candidate whose key or issuer file makes the signer fail
FailsToSign(c) == HasUsername(c) /\ ~CanSign(c.v["username"])

Earlier(p, q) == p[1] < q[1] \/ (p[1] = q[1] /\ p[2] < q[2])

\* C11: a connector whose signing fails keeps its token, the connectors after
\* it are still processed, and the document is written with the tokens that
\* were signed as soon as one signing succeeded.
C11_FailedSigningKeepsToken ==
    /\ pass.write = "ok" =>
           \A p \in Positions(pass.before.val) :
               /\ FailsToSign(At(pass.before.val, p)) =>
                      At(disk.val, p) = At(pass.before.val, p)
               /\ Refreshable(At(pass.before.val, p)) =>
                      /\ TokenOf(At(disk.val, p)).t = "jwt"
                      /\ TokenOf(At(disk.val, p)) # TokenOf(At(pass.before.val, p))
    /\ (pass.end = "pass" /\ \E p \in Positions(pass.before.val) :
                                 Refreshable(At(pass.before.val, p))) => pass.write # "none"

C11_Witness ==
    /\ pass.write = "ok"
    /\ \E p, q \in Positions(pass.before.val) :
           /\ Earlier(p, q)
           /\ FailsToSign(At(pass.before.val, p))
           /\ Refreshable(At(pass.before.val, q))
           /\ TokenOf(At(disk.val, q)) # TokenOf(At(pass.before.val, q))

\* the usernames of the candidates of a document, in document order
RECURSIVE UsernamesFrom(_, _, _)
UsernamesFrom(val, i, j) ==
    IF i > Len(Links(val)) THEN <<>>
    ELSE IF j > Len(Connectors(Links(val)[i])) THEN UsernamesFrom(val, i + 1, 1)
    ELSE LET c == Connectors(Links(val)[i])[j] IN
         (IF HasUsername(c) THEN <<c.v["username"]>> ELSE <<>>) \o UsernamesFrom(val, i, j + 1)

\* C12: a zello-channel-api connector without a username is skipped: the
\* signer is not called for it, it is written back as it was read, and every
\* candidate after it, in its link and in later links, is still signed for.
C12_NoUsernameIsSkipped ==
    pass.end = "pass" =>
        /\ pass.calls = UsernamesFrom(pass.before.val, 1, 1)
        /\ \A p \in Positions(pass.before.val) :
               (IsZello(At(pass.before.val, p)) /\ ~HasUsername(At(pass.before.val, p))) =>
                   At(pass.data, p) = At(pass.before.val, p)

C12_Witness ==
    /\ pass.end = "pass"
    /\ \E p, q \in Positions(pass.before.val) :
           /\ p[1] < q[1]
           /\ IsZello(At(pass.before.val, p)) /\ ~HasUsername(At(pass.before.val, p))
           /\ HasUsername(At(pass.before.val, q))
    /\ Len(pass.calls) = 3

Minted == hist.minted

\* C13 as stated: any two successful token generations, in one pass or in two
\* cycles, produce different token values.
C13_TokensNeverReused ==
    \A i, j \in 1..Len(Minted) : i # j => Minted[i].token # Minted[j].token

\* C13 amended: two successful token generations in two different remediation
\* cycles produce different token values.
C13_TokensDifferAcrossCycles ==
    \A i, j \in 1..Len(Minted) :
        Minted[i].cycle # Minted[j].cycle => Minted[i].token # Minted[j].token

C13_Witness ==
    \E i, j \in 1..Len(Minted) :
        /\ Minted[i].cycle # Minted[j].cycle
        /\ Minted[i].token.v.key = Minted[j].token.v.key
        /\ Minted[i].token.v.payload.iss = Minted[j].token.v.payload.iss

KeyPathOf(username) == JoinPath(BaseDir, username, ".pem")
IssuerPathOf(username) == JoinPath(BaseDir, username, ".txt")

KeyMissing(username) ==
    ~(username.t = "str" /\ username.v \in Users) \/ material[username.v].key = "missing"
IssuerMissing(username) ==
    ~(username.t = "str" /\ username.v \in Users) \/ ~material[username.v].issuer.exists

Did(steps, op) == \E i \in 1..Len(steps) : steps[i].op = op

\* C14: called with a key path or an issuer path that does not exist, the
\* signer returns None, logs that path as missing, and neither parses the key
\* nor signs; no token is minted.
C14_MissingFileStopsSigner ==
    \A k \in 1..Len(pass.calls) :
        LET username == pass.calls[k]
            steps == SignerSteps(IssuerPathOf(username), KeyPathOf(username))
        IN  (KeyMissing(username) \/ IssuerMissing(username)) =>
                /\ generate_jwt_token(IssuerPathOf(username), KeyPathOf(username)) = JNull
                /\ ~Did(steps, "parse_key")
                /\ ~Did(steps, "sign")
                /\ steps[Len(steps)] =
                       Step("log_missing", IF KeyMissing(username) THEN KeyPathOf(username)
                                           ELSE IssuerPathOf(username))
                /\ \A i \in 1..Len(Minted) :
                       Minted[i].cycle = polls => Minted[i].token.v.key # username.v

C14_Witness ==
    \E k \in 1..Len(pass.calls) :
        /\ IssuerMissing(pass.calls[k])
        /\ ~KeyMissing(pass.calls[k])
        /\ pc = "restart"

AllWhitespace(s) == \A i \in 1..Len(s) : s[i] \in Whitespace

\* iss is text without its leading and trailing whitespace
IsTrimOf(iss, text) ==
    /\ Len(iss) > 0 => (iss[1] \notin Whitespace /\ iss[Len(iss)] \notin Whitespace)
    /\ \E a \in 0..Len(text) :
           /\ a + Len(iss) <= Len(text)
           /\ AllWhitespace(SubSeq(text, 1, a))
           /\ SubSeq(text, a + 1, a + Len(iss)) = iss
           /\ AllWhitespace(SubSeq(text, a + Len(iss) + 1, Len(text)))

\* C15: a minted token carries exactly the claims iss and exp; iss is the
\* issuer file's content trimmed of surrounding whitespace and exp is the
\* generation time plus 120 seconds, within one second.
C15_TokenClaims ==
    \A i \in 1..Len(Minted) :
        LET payload == Minted[i].token.v.payload
        IN  /\ DOMAIN payload = {"iss", "exp"}
            /\ IsTrimOf(payload.iss, material[Minted[i].token.v.key].issuer.text)
            /\ payload.exp - (Minted[i].at + TokenLifetime) \in -1..1

C15_Witness ==
    \E i \in 1..Len(Minted) :
        LET text == material[Minted[i].token.v.key].issuer.text
        IN  /\ text[1] \in Whitespace
            /\ text[Len(text)] \in Whitespace
            /\ Minted[i].at > 0

\* the connectors a status snapshot reports with an authentication error
RECURSIVE Reported(_, _)
Reported(val, i) ==
    IF i > Len(Links(val)) THEN 0
    ELSE Cardinality({j \in 1..Len(Connectors(Links(val)[i])) :
                         Signature(Connectors(Links(val)[i])[j])})
         + Reported(val, i + 1)

MintedNow == {Minted[i].token : i \in {k \in 1..Len(Minted) : Minted[k].cycle = polls}}

\* C16: one pass calls the signer for every zello-channel-api connector with a
\* username in every link of the configuration, whatever the status snapshot
\* reported, and each one it can sign for gets a token minted in this pass,
\* a connector holding an unexpired token included.
C16_PassRefreshesEveryCandidate ==
    (pc = "restart" /\ pass.end = "pass") =>
        \A p \in Positions(pass.before.val) :
            LET c == At(pass.before.val, p) IN
            HasUsername(c) =>
                /\ \E k \in 1..Len(pass.calls) : pass.calls[k] = c.v["username"]
                /\ (CanSign(c.v["username"]) /\ pass.write = "ok") =>
                       /\ TokenOf(At(disk.val, p)) \in MintedNow
                       /\ TokenOf(At(disk.val, p)).v.payload.exp = now + TokenLifetime

C16_Witness ==
    /\ pc = "restart"
    /\ pass.write = "ok"
    /\ Reported(response.val, 1) = 1
    /\ \E p, q \in Positions(pass.before.val) :
           /\ p[1] # q[1]
           /\ Refreshable(At(pass.before.val, p))
           /\ Refreshable(At(pass.before.val, q))
           /\ TokenOf(At(pass.before.val, q)).t = "jwt"
           /\ TokenOf(At(pass.before.val, q)).v.payload.exp > now
           /\ TokenOf(At(disk.val, p)) \in MintedNow
           /\ TokenOf(At(disk.val, q)) \in MintedNow

\* C17: a status request that follows an iteration without a restart request
\* comes one second after that iteration's status request; one that follows a
\* restart request, answered or not, comes at least 60 seconds after it.
C17_PollCadence ==
    [][(pc = "poll" /\ polls' = polls + 1 /\ polls > 0) =>
           IF RestartIssued
           THEN now - hist.restart_at >= Quiescence
           ELSE now - hist.status_at = PollInterval]_vars

C17_Witness ==
    /\ pc = "poll"
    /\ polls = 2
    /\ RestartIssued
    /\ hist.restart_at = PollInterval
    /\ now = hist.restart_at + Quiescence + PollInterval

\* C18: whenever the mutator returns, whatever it did (file missing, bad
\* structure, nothing to sign, write failed, tokens saved), the next step of
\* the iteration is the restart request.
C18_RestartWhateverTheRefreshDid ==
    [][/\ (pc = "mutate" /\ pass'.end # "raised") => pc' = "restart"
       /\ pc = "restart" => (RestartIssued' /\ hist'.restarts = hist.restarts + 1)]_vars

C18_Witness ==
    /\ RestartIssued
    /\ pass.end = "returned"
    /\ pass.write = "none"
    /\ disk = pass.before

\* over a run, no more restart requests than triggering snapshots
C19_RestartsBounded == hist.restarts <= hist.triggers /\ hist.mutations <= hist.triggers

\* C19: every triggering snapshot causes exactly one mutator invocation and
\* exactly one restart request: once the iteration is past its remediation,
\* the three counts are equal, and the restarts never exceed the triggers.
C19_OneMutationOneRestartPerTrigger ==
    /\ C19_RestartsBounded
    /\ pc \in {"sleep60", "sleep1", "poll", "crashed"} =>
           /\ hist.mutations = hist.triggers
           /\ hist.restarts = hist.triggers

\* a successful status snapshot that reports a qualifying code
Qualifying(resp) ==
    /\ resp.kind = "http"
    /\ resp.status_code = StatusOk
    /\ resp.json
    /\ Scannable(resp.val)
    /\ HasSignature(resp.val)

\* every qualifying snapshot starts a remediation, however many remediations
\* came before it
C20_NoCapNoBackoff ==
    [][(pc = "poll" /\ Qualifying(response')) =>
           (pc' = "mutate" /\ hist'.triggers = hist.triggers + 1)]_vars

\* C20: remediation has no cap and no backoff and goes on for as long as the
\* snapshots qualify: every qualifying snapshot starts a remediation, every
\* remediation runs through the refresh, the restart request and the sleeps,
\* and the watchdog polls again.
C20_RemediationNeverStops ==
    [][/\ (pc = "poll" /\ Qualifying(response')) =>
              (pc' = "mutate" /\ hist'.triggers = hist.triggers + 1)
       /\ pc = "mutate" => pc' = "restart"
       /\ pc = "restart" => pc' = "sleep60"
       /\ pc = "sleep60" => pc' = "sleep1"
       /\ pc = "sleep1" => pc' = "poll"]_vars

====
